---- MODULE Spec2Model ----
(***************************************************************************)
(* Model of the cell-segmentation scoring code:                            *)
(*   - the run-length mask codec rle_encode / rle_decode                   *)
(*     (src/src/MMdetect_CaMRNN_RES50_PerFold_test12.py), and              *)
(*   - the evaluator COCOEvaluator with its helpers precision_at and       *)
(*     iou_map (src/src/toolbox/livecell_coco_evaluator.py).               *)
(*                                                                         *)
(* Conventions.  Python strings are sequences of one-character strings.   *)
(* Floating point values are exact rationals [n, d] (d > 0), NaN is        *)
(* [n |-> 0, d |-> 0].  Confidences and IoU thresholds are in hundredths.  *)
(* A mask is the set of the flat pixel indices it covers.                  *)
(***************************************************************************)
EXTENDS Integers, Sequences, FiniteSets, TLC

VARIABLES
    \* ---- codec (rle_encode / rle_decode callers)
    bitmap,            \* the img handed to rle_encode (a sequence of rows)
    shape,             \* the shape handed to rle_decode
    mask_rle,          \* the string handed to rle_decode
    decoded,           \* what rle_decode returned or raised
    reencoded,         \* rle_encode of the bitmap rle_decode returned
    \* ---- COCOEvaluator
    TOPK_TYPE,         \* constructor argument
    annotations_cache, \* self._annotations_cache: image_id -> ground-truth masks
    hasAttrs,          \* whether self._predictions / self._scores exist
    predictions,       \* self._predictions
    scores,            \* self._scores
    outputs,           \* the caller's `outputs` list as the last process call left it
    lastCall,          \* the last call and its arguments as passed
    ret,               \* what the last call returned or raised
    iou_log,           \* per image scored by the last evaluate: its `ious`, if built
    \* ---- scoring of one image (the body of evaluate's loop)
    enc_preds,         \* predicted masks of the image
    enc_targs,         \* ground-truth masks of the image
    ious,              \* the matrix mask_util.iou returned
    pa,                \* the last precision_at call and its result
    ap,                \* what iou_map returned or raised
    \* ---- one evaluator per rank (distributed = True)
    rank,              \* per rank: position of its driver, _predictions, _scores,
                       \* what evaluate returned, the list evaluate scored
    gather_buf         \* comm.gather: per rank, the list sent to rank 0 and not
                       \* yet collected

codecVars == <<bitmap, shape, mask_rle, decoded, reencoded>>
evalVars  == <<TOPK_TYPE, annotations_cache, hasAttrs, predictions, scores,
               outputs, lastCall, ret, iou_log>>
scoreVars == <<enc_preds, enc_targs, ious, pa, ap>>
distVars  == <<rank, gather_buf>>
vars      == <<codecVars, evalVars, scoreVars, distVars>>

NoValue == [kind |-> "none"]
Raised(exc) == [kind |-> "error", exc |-> exc]

Min(a, b) == IF a < b THEN a ELSE b
Max(a, b) == IF a > b THEN a ELSE b

(***************************************************************************)
(* Python / numpy primitives used by the codec                             *)
(***************************************************************************)
Digits == <<"0", "1", "2", "3", "4", "5", "6", "7", "8", "9">>

IsDigit(c) == \E i \in 1..10 : Digits[i] = c

DigitValue(c) == (CHOOSE i \in 1..10 : Digits[i] = c) - 1

IsSpace(c) == c = " "

\* str(x) of a Python int
RECURSIVE str(_)
str(x) ==
    IF x < 0 THEN <<"-">> \o str(-x)
    ELSE IF x < 10 THEN <<Digits[x + 1]>>
    ELSE str(x \div 10) \o <<Digits[(x % 10) + 1]>>

\* ' '.join(tokens)
RECURSIVE join(_)
join(tokens) ==
    IF tokens = <<>> THEN <<>>
    ELSE IF Len(tokens) = 1 THEN tokens[1]
    ELSE tokens[1] \o <<" ">> \o join(Tail(tokens))

\* str.split(): the maximal runs of non-whitespace characters, in order
RECURSIVE split_from(_, _, _)
split_from(chars, i, cur) ==
    IF i > Len(chars) THEN (IF cur = <<>> THEN <<>> ELSE <<cur>>)
    ELSE IF IsSpace(chars[i])
         THEN (IF cur = <<>> THEN <<>> ELSE <<cur>>) \o split_from(chars, i + 1, <<>>)
         ELSE split_from(chars, i + 1, Append(cur, chars[i]))

split(chars) == split_from(chars, 1, <<>>)

\* whether int(tok) succeeds: an optional sign and at least one digit
IsIntLiteral(tok) ==
    LET body == IF tok # <<>> /\ tok[1] \in {"-", "+"} THEN Tail(tok) ELSE tok
    IN  body # <<>> /\ \A i \in 1..Len(body) : IsDigit(body[i])

RECURSIVE DigitsValue(_)
DigitsValue(body) ==
    IF body = <<>> THEN 0
    ELSE 10 * DigitsValue(SubSeq(body, 1, Len(body) - 1)) + DigitValue(body[Len(body)])

int(tok) ==
    IF tok[1] = "-" THEN 0 - DigitsValue(Tail(tok))
    ELSE IF tok[1] = "+" THEN DigitsValue(Tail(tok))
    ELSE DigitsValue(tok)

\* s[k:][::2] for k = 0, 1 (k0 is the 0-based offset)
EveryOther(s, k0) ==
    [j \in 1..((Len(s) - k0 + 1) \div 2) |-> s[k0 + 2 * j - 1]]

\* np.where(cond)[0]: the 0-based indices at which cond holds, ascending
RECURSIVE where_from(_, _)
where_from(cond, j) ==
    IF j > Len(cond) THEN <<>>
    ELSE (IF cond[j] THEN <<j - 1>> ELSE <<>>) \o where_from(cond, j + 1)

where(cond) == where_from(cond, 1)

\* img.flatten(): row-major (C order)
RECURSIVE flatten(_)
flatten(img) ==
    IF img = <<>> THEN <<>> ELSE img[1] \o flatten(Tail(img))

\* flat.reshape(shape): row-major
reshape(flat, shp) ==
    [r \in 1..shp[1] |-> [c \in 1..shp[2] |-> flat[(r - 1) * shp[2] + c]]]

\* a Python slice bound i, normalised against length n
SliceBound(i, n) == IF i < 0 THEN Max(i + n, 0) ELSE Min(i, n)

\* img[lo:hi] = 1 on a flat array (0-based lo, hi)
SliceAssignOne(flat, lo, hi) ==
    LET n == Len(flat)
        a == SliceBound(lo, n)
        b == SliceBound(hi, n)
    IN  [k \in 1..n |-> IF a <= k - 1 /\ k - 1 < b THEN 1 ELSE flat[k]]

(***************************************************************************)
(* rle_encode                                                              *)
(***************************************************************************)
\* faulty variant of the padding: the sentinel after the pixels is missing
PadLeadingOnly(flat) == <<0>> \o flat

\* np.concatenate([[0], pixels, [0]])
Pad(flat) == <<0>> \o flat \o <<0>>

\* faulty variant of runs[1::2] -= runs[::2]: the run ends are left as they are
RunEnds(runs0) == runs0

\* runs[1::2] -= runs[::2]
RunLengths(runs0) ==
    [k \in 1..Len(runs0) |-> IF k % 2 = 0 THEN runs0[k] - runs0[k - 1] ELSE runs0[k]]

rle_encode(img) ==
    LET pixels == Pad(flatten(img))
        n      == Len(pixels)
        \* np.where(pixels[1:] != pixels[:-1])[0] + 1
        w      == where([j \in 1..(n - 1) |-> pixels[j + 1] # pixels[j]])
        runs0  == [k \in 1..Len(w) |-> w[k] + 1]
        runs   == RunLengths(runs0)
    IN  join([k \in 1..Len(runs) |-> str(runs[k])])

(***************************************************************************)
(* rle_decode                                                              *)
(***************************************************************************)
\* faulty variant of starts -= 1: the starts are left 1-indexed
StartsMinusOneOff(starts) == starts

\* starts -= 1
StartsMinusOne(starts) == [k \in 1..Len(starts) |-> starts[k] - 1]

\* starts + lengths under numpy broadcasting of two 1-d arrays:
\* equal sizes add elementwise, a size-1 operand is stretched (to size 0 too),
\* any other pair of sizes raises ValueError
CanBroadcast(a, b) == Len(a) = Len(b) \/ Len(a) = 1 \/ Len(b) = 1

BroadcastAdd(a, b) ==
    LET n == IF Len(a) = Len(b) THEN Len(a)
             ELSE IF Len(a) = 1 THEN Len(b) ELSE Len(a)
    IN  [k \in 1..n |-> (IF Len(a) = 1 THEN a[1] ELSE a[k])
                        + (IF Len(b) = 1 THEN b[1] ELSE b[k])]

\* for lo, hi in zip(starts, ends): img[lo:hi] = 1
RECURSIVE FillRuns(_, _, _, _)
FillRuns(flat, starts, ends, k) ==
    IF k > Min(Len(starts), Len(ends)) THEN flat
    ELSE FillRuns(SliceAssignOne(flat, starts[k], ends[k]), starts, ends, k + 1)

rle_decode(rle, shp) ==
    LET s          == split(rle)
        startToks  == EveryOther(s, 0)
        lengthToks == EveryOther(s, 1)
    IN  IF \E i \in 1..Len(s) : ~IsIntLiteral(s[i])
        THEN Raised("ValueError")
        ELSE
          LET starts0 == [k \in 1..Len(startToks) |-> int(startToks[k])]
              lengths == [k \in 1..Len(lengthToks) |-> int(lengthToks[k])]
              starts  == StartsMinusOne(starts0)
          IN  IF ~CanBroadcast(starts, lengths)
              THEN Raised("ValueError")
              ELSE
                LET ends == BroadcastAdd(starts, lengths)
                    zero == [k \in 1..(shp[1] * shp[2]) |-> 0]
                IN  [kind |-> "ok",
                     img  |-> reshape(FillRuns(zero, starts, ends, 1), shp)]

(***************************************************************************)
(* Callers of the codec                                                    *)
(***************************************************************************)
MaxH == 2
MaxW == 3
MaxTokens == 5

Bitmaps ==
    UNION {[1..h -> [1..w -> {0, 1}]] : <<h, w>> \in (1..MaxH) \X (1..MaxW)}

ShapeOf(img) == <<Len(img), Len(img[1])>>

\* the tokens the arbitrary decode inputs are built from
TokenPool == {str(0), str(1), str(2), str(5), <<"x">>}

TokenLists == UNION {[1..n -> TokenPool] : n \in 0..MaxTokens}

DecodeShapes == {<<1, 3>>, <<2, 2>>}

CodecIdle ==
    /\ bitmap = <<>>
    /\ shape = <<0, 0>>
    /\ mask_rle = NoValue
    /\ decoded = NoValue
    /\ reencoded = NoValue

\* mask_rle = rle_encode(bitmap)
CallEncode ==
    /\ bitmap # <<>>
    /\ mask_rle = NoValue
    /\ mask_rle' = [kind |-> "str", chars |-> rle_encode(bitmap)]
    /\ UNCHANGED <<bitmap, shape, decoded, reencoded>>

\* decoded = rle_decode(mask_rle, shape)
CallDecode ==
    /\ mask_rle # NoValue
    /\ decoded = NoValue
    /\ decoded' = rle_decode(mask_rle.chars, shape)
    /\ UNCHANGED <<bitmap, shape, mask_rle, reencoded>>

\* reencoded = rle_encode(rle_decode(mask_rle, shape))
CallReencode ==
    /\ decoded # NoValue
    /\ decoded.kind = "ok"
    /\ reencoded = NoValue
    /\ reencoded' = [kind |-> "str", chars |-> rle_encode(decoded.img)]
    /\ UNCHANGED <<bitmap, shape, mask_rle, decoded>>

(***************************************************************************)
(* Exact arithmetic standing for the float arithmetic of the scorer        *)
(***************************************************************************)
RECURSIVE GCD(_, _)
GCD(a, b) == IF b = 0 THEN a ELSE GCD(b, a % b)

NaN == [n |-> 0, d |-> 0]

IsNaN(x) == x.d = 0

\* n / d for numpy integers n >= 0, d >= 0 with n <= d: 0 / 0 is nan (a warning,
\* not an exception)
Rat(n, d) ==
    IF d = 0 THEN NaN
    ELSE LET g == GCD(n, d) IN [n |-> n \div g, d |-> d \div g]

Zero == Rat(0, 1)
One  == Rat(1, 1)

RatAdd(x, y) ==
    IF IsNaN(x) \/ IsNaN(y) THEN NaN ELSE Rat(x.n * y.d + y.n * x.d, x.d * y.d)

RatDivInt(x, k) == IF IsNaN(x) \/ k = 0 THEN NaN ELSE Rat(x.n, x.d * k)

RECURSIVE RatSum(_)
RatSum(xs) == IF xs = <<>> THEN Zero ELSE RatAdd(xs[1], RatSum(Tail(xs)))

\* np.mean(xs): nan for an empty list
mean(xs) == RatDivInt(RatSum(xs), Len(xs))

(***************************************************************************)
(* mask_util.iou as evaluate calls it (pycocotools, iscrowd all 0)         *)
(***************************************************************************)
\* intersection over union of two masks; pycocotools sets the union to 1 when
\* the intersection is empty, so disjoint (and empty) masks give 0
MaskIoU(a, b) ==
    LET i == Cardinality(a \cap b)
    IN  IF i = 0 THEN Zero ELSE Rat(i, Cardinality(a \cup b))

PyList == [kind |-> "list"]

NdArray(nrows, ncols, cell) ==
    [kind |-> "ndarray", rows |-> nrows, cols |-> ncols, cell |-> cell]

\* mask_util.iou(dt, gt, [0]*len(gt)): a len(dt) x len(gt) array, row d the
\* detection dt[d]; the plain empty list [] when dt or gt is empty
mask_util_iou(dt, gt) ==
    IF Len(dt) = 0 \/ Len(gt) = 0 THEN PyList
    ELSE NdArray(Len(dt), Len(gt),
                 [d \in 1..Len(dt) |-> [g \in 1..Len(gt) |-> MaskIoU(dt[d], gt[g])]])

(***************************************************************************)
(* precision_at                                                            *)
(***************************************************************************)
\* faulty variant of the match test: a cell equal to the threshold matches
MatchesInclusive(cell, threshold) == cell.n * 100 >= threshold * cell.d

\* faulty variant of the match test: the comparison is inverted
MatchesBelow(cell, threshold) == cell.n * 100 < threshold * cell.d

\* iou > threshold, for one cell (threshold in hundredths)
Matches(cell, threshold) == cell.n * 100 > threshold * cell.d

\* np.sum(matches, axis=1)[r] and np.sum(matches, axis=0)[c]
RowSum(iou, threshold, r) ==
    Cardinality({c \in 1..iou.cols : Matches(iou.cell[r][c], threshold)})

ColSum(iou, threshold, c) ==
    Cardinality({r \in 1..iou.rows : Matches(iou.cell[r][c], threshold)})

\* [] > threshold is a 1-d empty array, and np.sum(.., axis=1) of it raises
precision_at(threshold, iou) ==
    IF iou.kind = "list" THEN Raised("AxisError")
    ELSE [kind |-> "ok",
          tp |-> Cardinality({r \in 1..iou.rows : RowSum(iou, threshold, r) >= 1}),
          fp |-> Cardinality({c \in 1..iou.cols : ColSum(iou, threshold, c) = 0}),
          fn |-> Cardinality({r \in 1..iou.rows : RowSum(iou, threshold, r) = 0})]

(***************************************************************************)
(* iou_map                                                                 *)
(***************************************************************************)
\* np.arange(start, stop, step), all three in hundredths
arange(start, stop, step) ==
    [i \in 1..((stop - start + step - 1) \div step) |-> start + (i - 1) * step]

\* faulty variant of the threshold sequence: 1.0 is included
ThresholdsThroughOne == arange(50, 105, 5)

\* np.arange(0.5, 1.0, 0.05): ten values.  The floats drift above the nominal
\* values by less than 1e-15, which no ratio of two pixel counts of a 520 x 704
\* image can fall within, so the comparison with an IoU is the exact one
Thresholds == arange(50, 100, 5)

NoCounts == [tps |-> 0, fps |-> 0, fns |-> 0]

\* faulty variant of the counters: they carry over from the previous threshold
CountersCarried(carried) == carried

\* tps, fps, fns = 0, 0, 0 at the top of the loop body
CountersAtLoopTop(carried) == NoCounts

\* the loop over the thresholds from position k on; prec is the list so far
RECURSIVE iou_map_loop(_, _, _, _)
iou_map_loop(iou, k, prec, carried) ==
    IF k > Len(Thresholds) THEN [kind |-> "ok", value |-> mean(prec)]
    ELSE
      LET c0 == CountersAtLoopTop(carried)
          r  == precision_at(Thresholds[k], iou)
      IN  IF r.kind = "error" THEN r
          ELSE
            LET c1 == [tps |-> c0.tps + r.tp, fps |-> c0.fps + r.fp, fns |-> c0.fns + r.fn]
                p  == Rat(c1.tps, c1.tps + c1.fps + c1.fns)
            IN  iou_map_loop(iou, k + 1, Append(prec, p), c1)

iou_map(iou) == iou_map_loop(iou, 1, <<>>, NoCounts)

(***************************************************************************)
(* COCOEvaluator: construction constants and the prediction filter         *)
(***************************************************************************)
\* self._SCORE_THRESHOLD, indexed by class (hundredths); class c is entry c + 1
SCORE_THRESHOLD(topk) ==
    IF topk = "default" THEN <<15, 30, 55>> ELSE <<25, 45, 65>>

\* self._MIN_PIXELS, indexed by class
MIN_PIXELS == <<60, 140, 75>>

\* pred_classes.count(c)
count(list, c) == Cardinality({k \in 1..Len(list) : list[k] = c})

\* max(set(pred_classes), key=pred_classes.count): the first class of maximal
\* count in the set's iteration order, which for the small non-negative ints
\* 0, 1, 2 is ascending (CPython stores them at slot hash(c) = c)
majority(pred_classes) ==
    LET cs == {pred_classes[k] : k \in 1..Len(pred_classes)}
    IN  CHOOSE c \in cs :
          /\ \A c2 \in cs : count(pred_classes, c2) <= count(pred_classes, c)
          /\ \A c2 \in cs : count(pred_classes, c2) = count(pred_classes, c) => c <= c2

\* pred_masks.sum(dim=1).sum(dim=1) for one instance
pixel_sum(inst) == Cardinality(inst.pred_mask)

\* faulty variant of the score test: a score equal to the threshold is dropped
TakeScoreStrict(inst, pred_class, topk) ==
    inst.score > SCORE_THRESHOLD(topk)[pred_class + 1]

\* scores >= self._SCORE_THRESHOLD[pred_class]
TakeScore(inst, pred_class, topk) ==
    inst.score >= SCORE_THRESHOLD(topk)[pred_class + 1]

\* pred_classes == pred_class
TakeMajority(inst, pred_class) == inst.pred_class = pred_class

\* pred_masks.sum(dim=1).sum(dim=1) >= self._MIN_PIXELS[pred_class]
TakeSum(inst, pred_class) == pixel_sum(inst) >= MIN_PIXELS[pred_class + 1]

\* faulty variant: the instances not taken are blanked in place instead of
\* being left out of a new collection
FilterBlanking(instances, topk) ==
    LET pred_classes == [k \in 1..Len(instances) |-> instances[k].pred_class]
        pred_class   == majority(pred_classes)
        take(inst)   == /\ TakeScore(inst, pred_class, topk)
                        /\ TakeMajority(inst, pred_class)
                        /\ TakeSum(inst, pred_class)
    IN  [k \in 1..Len(instances) |->
            IF take(instances[k]) THEN instances[k]
            ELSE [instances[k] EXCEPT !.pred_mask = {}]]

\* output['instances'][take] for a non-empty list of instances
Filter(instances, topk) ==
    LET pred_classes == [k \in 1..Len(instances) |-> instances[k].pred_class]
        pred_class   == majority(pred_classes)
        take(inst)   == /\ TakeScore(inst, pred_class, topk)
                        /\ TakeMajority(inst, pred_class)
                        /\ TakeSum(inst, pred_class)
    IN  SelectSeq(instances, take)

\* instances_to_coco_json: one dict per instance; the segmentation is the COCO
\* RLE of the mask, kept here as the pixel set it denotes
instances_to_coco_json(instances, img_id) ==
    [k \in 1..Len(instances) |->
        [image_id     |-> img_id,
         category_id  |-> instances[k].pred_class,
         score        |-> instances[k].score,
         segmentation |-> instances[k].pred_mask]]

ReturnedNone == [kind |-> "ok", value |-> "None"]

(***************************************************************************)
(* COCOEvaluator.reset / process / evaluate (distributed = False)          *)
(*                                                                         *)
(* The evaluator is built with distributed = False and output_dir = None,  *)
(* TOPK_TYPE is one of the two values that define _SCORE_THRESHOLD, the    *)
(* model outputs carry "instances" and no "proposals", and every image_id  *)
(* is one of the dataset's.  An exception ends the call where it is        *)
(* raised: what the loop did before stays done.                            *)
(***************************************************************************)
\* faulty variant of the append: the list is assigned, the earlier records go
KeepLastPrediction(preds, prediction) == <<prediction>>

\* self._predictions.append(prediction)
AppendPrediction(preds, prediction) == Append(preds, prediction)

\* the loop of process over zip(inputs, outputs) from position k on
RECURSIVE process_loop(_, _, _, _, _, _)
process_loop(inputs, outs, k, preds, has, topk) ==
    IF k > Min(Len(inputs), Len(outs))
    THEN [outputs |-> outs, predictions |-> preds, ret |-> ReturnedNone]
    ELSE
      LET instances == outs[k].instances
      IN  IF instances = <<>>
          \* max() of an empty set
          THEN [outputs |-> outs, predictions |-> preds, ret |-> Raised("ValueError")]
          ELSE
            LET kept == Filter(instances, topk)
                outs1 == [outs EXCEPT ![k].instances = kept]
                prediction ==
                    [image_id  |-> inputs[k].image_id,
                     instances |-> instances_to_coco_json(kept, inputs[k].image_id)]
            IN  IF ~has
                \* self._predictions does not exist
                THEN [outputs |-> outs1, predictions |-> preds,
                      ret |-> Raised("AttributeError")]
                ELSE process_loop(inputs, outs1, k + 1,
                                  AppendPrediction(preds, prediction), has, topk)

\* faulty variant: an image with neither predictions nor ground truth scores 1
ScoreOfNoPredictionsVacuous(targs) == IF targs = <<>> THEN One ELSE Zero

\* self._scores.append(0)
ScoreOfNoPredictions(targs) == Zero

\* the body of the loop of evaluate for one image: `ious` (when it is built)
\* and the score appended, or the exception
ScoreImage(preds, targs) ==
    IF preds # <<>>
    THEN LET m == mask_util_iou(preds, targs)
             r == iou_map(m)
         IN  IF r.kind = "error" THEN r
             ELSE [kind |-> "ok", value |-> r.value, ious |-> m]
    ELSE [kind |-> "ok", value |-> ScoreOfNoPredictions(targs), ious |-> NoValue]

Segmentations(dicts) == [k \in 1..Len(dicts) |-> dicts[k].segmentation]

EmptyDict == [keys |-> {}]

\* the loop of evaluate over predictions from position k on; sc is self._scores
RECURSIVE evaluate_loop(_, _, _, _, _)
evaluate_loop(preds, k, sc, cache, log) ==
    IF k > Len(preds)
    THEN [scores |-> sc, log |-> log,
          ret |-> [kind |-> "ok",
                   value |-> [keys |-> {"MaP IoU"}, MaP_IoU |-> mean(sc)]]]
    ELSE
      LET per_img_dic == preds[k]
          targs == Segmentations(cache[per_img_dic.image_id])
          dets  == Segmentations(per_img_dic.instances)
          r     == ScoreImage(dets, targs)
      IN  IF r.kind = "error"
          THEN [scores |-> sc, log |-> log, ret |-> r]
          ELSE evaluate_loop(preds, k + 1, Append(sc, r.value), cache,
                             Append(log, r.ious))

(***************************************************************************)
(* The evaluator's environment: dataset, detector outputs, bounds          *)
(***************************************************************************)
MaxInstances == 3       \* instances per image in the filter's inputs
MaxImages == 2          \* images processed between two resets
MaxScores == 3          \* length of self._scores

Instance(c, s, m) == [pred_class |-> c, score |-> s, pred_mask |-> m]

Annotation(m) == [segmentation |-> m]

\* DatasetCatalog.get(dataset_name): image 1 has two cells, image 2 none
Dataset ==
    << <<Annotation(1..60), Annotation(61..120)>>,
       <<>> >>

ImageIds == DOMAIN Dataset

\* what the detector returns for an image in the evaluation runs: nothing;
\* one of the two cells of image 1; a low-score cell (kept under "default"
\* only); both cells of image 1
DetectorOutputs ==
    { <<>>,
      <<Instance(0, 90, 1..60)>>,
      <<Instance(0, 20, 61..120)>>,
      <<Instance(0, 90, 1..60), Instance(0, 90, 61..120)>> }

\* the test loader hands process one image per call
Batches ==
    { <<[input |-> [image_id |-> id], output |-> [instances |-> insts]]>> :
        id \in ImageIds, insts \in DetectorOutputs }

InputsOf(batch) == [k \in 1..Len(batch) |-> batch[k].input]

OutputsOf(batch) == [k \in 1..Len(batch) |-> batch[k].output]

\* no ranks: the evaluator is built with distributed = False
DistIdle ==
    /\ rank = <<>>
    /\ gather_buf = <<>>

ScoreIdle ==
    /\ enc_preds = <<>>
    /\ enc_targs = <<>>
    /\ ious = NoValue
    /\ pa = NoValue
    /\ ap = NoValue

\* the evaluator as __init__ leaves it: no _predictions, no _scores
EvalInit ==
    /\ TOPK_TYPE \in {"default", "livecell"}
    /\ annotations_cache = Dataset
    /\ hasAttrs = FALSE
    /\ predictions = <<>>
    /\ scores = <<>>
    /\ outputs = <<>>
    /\ lastCall = [op |-> "__init__"]
    /\ ret = NoValue
    /\ iou_log = <<>>

\* faulty variant of reset: only self._predictions is emptied
reset_predictions_only ==
    /\ hasAttrs' = TRUE
    /\ predictions' = <<>>
    /\ lastCall' = [op |-> "reset"]
    /\ ret' = ReturnedNone
    /\ UNCHANGED <<TOPK_TYPE, annotations_cache, scores, outputs, iou_log>>

reset ==
    /\ hasAttrs' = TRUE
    /\ predictions' = <<>>
    /\ scores' = <<>>
    /\ lastCall' = [op |-> "reset"]
    /\ ret' = ReturnedNone
    /\ UNCHANGED <<TOPK_TYPE, annotations_cache, outputs, iou_log>>

\* the call, whatever the length of self._predictions
process_call(inputs, outs) ==
    LET r == process_loop(inputs, outs, 1, predictions, hasAttrs, TOPK_TYPE)
    IN  /\ predictions' = r.predictions
        /\ outputs' = r.outputs
        /\ lastCall' = [op |-> "process", inputs |-> inputs, outputs |-> outs]
        /\ ret' = r.ret
        /\ UNCHANGED <<TOPK_TYPE, annotations_cache, hasAttrs, scores, iou_log>>

process(inputs, outs) ==
    /\ Len(predictions) + Len(inputs) <= MaxImages
    /\ process_call(inputs, outs)

\* faulty variant: the empty case falls through to the final return
ResultOfNoPredictionsMean(sc) ==
    [kind |-> "ok", value |-> [keys |-> {"MaP IoU"}, MaP_IoU |-> mean(sc)]]

\* if len(predictions) == 0: (a warning is logged) return {}
ResultOfNoPredictions(sc) == [kind |-> "ok", value |-> EmptyDict]

evaluate ==
    /\ Len(scores) + Len(predictions) <= MaxScores
    /\ lastCall' = [op |-> "evaluate"]
    /\ IF ~hasAttrs
       THEN /\ ret' = Raised("AttributeError")
            /\ iou_log' = <<>>
            /\ UNCHANGED scores
       ELSE IF Len(predictions) = 0
       THEN /\ ret' = ResultOfNoPredictions(scores)
            /\ iou_log' = <<>>
            /\ UNCHANGED scores
       ELSE LET r == evaluate_loop(predictions, 1, scores, annotations_cache, <<>>)
            IN  /\ scores' = r.scores
                /\ iou_log' = r.log
                /\ ret' = r.ret
    /\ UNCHANGED <<TOPK_TYPE, annotations_cache, hasAttrs, predictions, outputs>>

(***************************************************************************)
(* Evaluation runs: reset, process and evaluate in any order               *)
(***************************************************************************)
Init == EvalInit /\ CodecIdle /\ ScoreIdle /\ DistIdle

Next ==
    \/ reset /\ UNCHANGED <<codecVars, scoreVars, distVars>>
    \/ \E batch \in Batches :
          process(InputsOf(batch), OutputsOf(batch)) /\ UNCHANGED <<codecVars, scoreVars, distVars>>
    \/ evaluate /\ UNCHANGED <<codecVars, scoreVars, distVars>>

Spec == Init /\ [][Next]_vars

(***************************************************************************)
(* The prediction filter of process on one image, over a wide set of       *)
(* detector outputs                                                        *)
(***************************************************************************)
\* instances at, just below and above the per-class thresholds
FilterPool ==
    { Instance(0, 25, 1..60), Instance(0, 24, 1..60), Instance(0, 15, 1..60),
      Instance(0, 90, 1..59), Instance(0, 90, 1..61),
      Instance(1, 45, 1..140), Instance(1, 30, 1..140), Instance(1, 90, 1..139),
      Instance(1, 29, 1..141),
      Instance(2, 65, 1..75), Instance(2, 55, 1..75), Instance(2, 90, 1..74) }

FilterInputs == UNION {[1..n -> FilterPool] : n \in 0..MaxInstances}

NextFilter ==
    \/ ~hasAttrs /\ reset /\ UNCHANGED <<codecVars, scoreVars, distVars>>
    \/ /\ hasAttrs
       /\ predictions = <<>>
       /\ \E id \in ImageIds, insts \in FilterInputs :
             process(<<[image_id |-> id]>>, <<[instances |-> insts]>>)
       /\ UNCHANGED <<codecVars, scoreVars, distVars>>

SpecFilter == Init /\ [][NextFilter]_vars

(***************************************************************************)
(* Evaluation runs whose process calls take batches of several images      *)
(***************************************************************************)
MaxBatch == 2           \* (input, output) pairs per process call
MaxRecords == 3         \* length of self._predictions in these runs

\* the images of the batches: image 1 with classes [0, 0, 1], both cells
\* found; image 2 with classes [1, 0, 1], one instance too small; image 1
\* with one low-score cell (kept under "default" only)
BatchPool ==
    { [input  |-> [image_id |-> 1],
       output |-> [instances |-> <<Instance(0, 90, 1..60), Instance(0, 90, 61..120),
                                   Instance(1, 90, 1..140)>>]],
      [input  |-> [image_id |-> 2],
       output |-> [instances |-> <<Instance(1, 90, 1..140), Instance(0, 90, 1..60),
                                   Instance(1, 45, 1..139)>>]],
      [input  |-> [image_id |-> 1],
       output |-> [instances |-> <<Instance(0, 20, 61..120)>>]] }

LongBatches == UNION {[1..n -> BatchPool] : n \in 1..MaxBatch}

process_batch(inputs, outs) ==
    /\ Len(predictions) + Len(inputs) <= MaxRecords
    /\ process_call(inputs, outs)

NextBatch ==
    \/ reset /\ UNCHANGED <<codecVars, scoreVars, distVars>>
    \/ \E batch \in LongBatches :
          process_batch(InputsOf(batch), OutputsOf(batch))
          /\ UNCHANGED <<codecVars, scoreVars, distVars>>
    \/ evaluate /\ UNCHANGED <<codecVars, scoreVars, distVars>>

SpecBatch == Init /\ [][NextBatch]_vars

(***************************************************************************)
(* One run of the test loop (reset, process per image, evaluate) over      *)
(* detections that overlap the ground truth partly                         *)
(***************************************************************************)
\* image 1 (cells 1..60 and 61..120): a detection with IoU 3/4, a blob over
\* both cells (IoU 1/2 with each), a cell found exactly next to one with IoU
\* 3/4, both cells found, a detection with IoU 10/11, a low-score cell (kept
\* under "default" only); image 2 (no cells): a low-score detection
RunBatches ==
    { <<[input |-> [image_id |-> 1],
         output |-> [instances |-> <<Instance(0, 90, 1..80)>>]]>>,
      <<[input |-> [image_id |-> 1],
         output |-> [instances |-> <<Instance(0, 90, 1..120)>>]]>>,
      <<[input |-> [image_id |-> 1],
         output |-> [instances |-> <<Instance(0, 90, 1..60), Instance(0, 90, 1..80)>>]]>>,
      <<[input |-> [image_id |-> 1],
         output |-> [instances |-> <<Instance(0, 90, 1..60), Instance(0, 90, 61..120)>>]]>>,
      <<[input |-> [image_id |-> 1],
         output |-> [instances |-> <<Instance(0, 90, 1..66)>>]]>>,
      <<[input |-> [image_id |-> 1],
         output |-> [instances |-> <<Instance(0, 20, 1..60)>>]]>>,
      <<[input |-> [image_id |-> 2],
         output |-> [instances |-> <<Instance(0, 20, 1..60)>>]]>> }

NextRun ==
    \/ /\ lastCall.op = "__init__"
       /\ reset
       /\ UNCHANGED <<codecVars, scoreVars, distVars>>
    \/ /\ lastCall.op \in {"reset", "process"}
       /\ \E batch \in RunBatches : process(InputsOf(batch), OutputsOf(batch))
       /\ UNCHANGED <<codecVars, scoreVars, distVars>>
    \/ /\ lastCall.op \in {"reset", "process"}
       /\ evaluate
       /\ UNCHANGED <<codecVars, scoreVars, distVars>>

SpecRun == Init /\ [][NextRun]_vars

(***************************************************************************)
(* The codec: encode a bitmap and decode the result                        *)
(***************************************************************************)
EvalIdle ==
    /\ TOPK_TYPE = "livecell"
    /\ annotations_cache = Dataset
    /\ hasAttrs = FALSE
    /\ predictions = <<>>
    /\ scores = <<>>
    /\ outputs = <<>>
    /\ lastCall = [op |-> "__init__"]
    /\ ret = NoValue
    /\ iou_log = <<>>

InitCodec ==
    /\ bitmap \in Bitmaps
    /\ shape = ShapeOf(bitmap)
    /\ mask_rle = NoValue
    /\ decoded = NoValue
    /\ reencoded = NoValue
    /\ EvalIdle
    /\ ScoreIdle
    /\ DistIdle

NextCodec ==
    \/ CallEncode /\ UNCHANGED <<evalVars, scoreVars, distVars>>
    \/ CallDecode /\ UNCHANGED <<evalVars, scoreVars, distVars>>

SpecCodec == InitCodec /\ [][NextCodec]_vars

(***************************************************************************)
(* The decoder on arbitrary strings                                        *)
(***************************************************************************)
InitDecode ==
    /\ bitmap = <<>>
    /\ shape \in DecodeShapes
    /\ mask_rle \in {[kind |-> "str", chars |-> join(toks)] : toks \in TokenLists}
    /\ decoded = NoValue
    /\ reencoded = NoValue
    /\ EvalIdle
    /\ ScoreIdle
    /\ DistIdle

NextDecode == CallDecode /\ UNCHANGED <<evalVars, scoreVars, distVars>>

SpecDecode == InitDecode /\ [][NextDecode]_vars

(***************************************************************************)
(* Decoding a string and encoding the bitmap again                         *)
(***************************************************************************)
\* the tokens of the strings that are decoded and encoded again: the pixel
\* positions of the shapes, and a number written with a leading zero
RecodeTokenPool == {str(1), str(2), str(3), str(4), <<"0", "1">>}

RecodeTokenLists == UNION {[1..n -> RecodeTokenPool] : n \in 0..MaxTokens}

InitRecode ==
    /\ bitmap = <<>>
    /\ shape \in DecodeShapes
    /\ mask_rle \in {[kind |-> "str", chars |-> join(toks)] : toks \in RecodeTokenLists}
    /\ decoded = NoValue
    /\ reencoded = NoValue
    /\ EvalIdle
    /\ ScoreIdle
    /\ DistIdle

NextRecode ==
    \/ CallDecode /\ UNCHANGED <<evalVars, scoreVars, distVars>>
    \/ CallReencode /\ UNCHANGED <<evalVars, scoreVars, distVars>>

SpecRecode == InitRecode /\ [][NextRecode]_vars

(***************************************************************************)
(* Scoring one image: the matrix evaluate builds, precision_at and iou_map *)
(***************************************************************************)
MaxPreds == 2
MaxTruths == 2

\* one cell, a blob covering two cells, the neighbouring cell, a cell and a
\* third of its neighbour
MaskPool == {1..60, 1..120, 61..120, 1..80}

MaskLists(lo, hi) == UNION {[1..n -> MaskPool] : n \in lo..hi}

InitScore ==
    /\ enc_preds \in MaskLists(1, MaxPreds)
    /\ enc_targs \in MaskLists(0, MaxTruths)
    /\ ious = NoValue
    /\ pa = NoValue
    /\ ap = NoValue
    /\ EvalIdle
    /\ CodecIdle
    /\ DistIdle

\* ious = mask_util.iou(enc_preds, enc_targs, [0]*len(enc_targs))
BuildIous ==
    /\ ious = NoValue
    /\ enc_preds # <<>>
    /\ ious' = mask_util_iou(enc_preds, enc_targs)
    /\ UNCHANGED <<enc_preds, enc_targs, pa, ap>>

\* precision_at(t, ious), as iou_map calls it
CallPrecisionAt(t) ==
    /\ ious # NoValue
    /\ pa' = [threshold |-> t, result |-> precision_at(t, ious)]
    /\ UNCHANGED <<enc_preds, enc_targs, ious, ap>>

\* iou_map(ious)
CallIouMap ==
    /\ ious # NoValue
    /\ ap = NoValue
    /\ ap' = iou_map(ious)
    /\ UNCHANGED <<enc_preds, enc_targs, ious, pa>>

NextScore ==
    \/ BuildIous /\ UNCHANGED <<codecVars, evalVars, distVars>>
    \/ \E k \in 1..Len(Thresholds) :
          CallPrecisionAt(Thresholds[k]) /\ UNCHANGED <<codecVars, evalVars, distVars>>
    \/ CallIouMap /\ UNCHANGED <<codecVars, evalVars, distVars>>

SpecScore == InitScore /\ [][NextScore]_vars

(***************************************************************************)
(* precision_at and iou_map called on an IoU matrix of any shape, the      *)
(* empty shapes (0 rows, 0 columns) included                               *)
(***************************************************************************)
MaxRows == 2
MaxCols == 2

\* the cell values: no overlap, IoU 0.75, full overlap
IouValues == {Zero, Rat(3, 4), One}

Matrices ==
    UNION { {NdArray(r, c, m) : m \in [1..r -> [1..c -> IouValues]]} :
              r \in 0..MaxRows, c \in 0..MaxCols }

InitMatrix ==
    /\ enc_preds = <<>>
    /\ enc_targs = <<>>
    /\ ious \in Matrices
    /\ pa = NoValue
    /\ ap = NoValue
    /\ EvalIdle
    /\ CodecIdle
    /\ DistIdle

NextMatrix ==
    \/ \E k \in 1..Len(Thresholds) :
          CallPrecisionAt(Thresholds[k]) /\ UNCHANGED <<codecVars, evalVars, distVars>>
    \/ CallIouMap /\ UNCHANGED <<codecVars, evalVars, distVars>>

SpecMatrix == InitMatrix /\ [][NextMatrix]_vars

(***************************************************************************)
(* distributed = True: one evaluator per rank, each driven through one run *)
(* of the test loop (reset, process per batch, evaluate); evaluate meets   *)
(* the other ranks in comm.synchronize and comm.gather                     *)
(***************************************************************************)
NumRanks == 2           \* world size
MaxRankImages == 1      \* images a rank processes in one run

Ranks == 0..(NumRanks - 1)

\* comm.is_main_process()
is_main_process(r) == r = 0

\* what the detector returns on the ranks: both cells of image 1; one cell of
\* image 1; a low-score instance on image 2, which the filter drops
RankBatches ==
    { <<[input  |-> [image_id |-> 1],
         output |-> [instances |-> <<Instance(0, 90, 1..60), Instance(0, 90, 61..120)>>]]>>,
      <<[input  |-> [image_id |-> 1],
         output |-> [instances |-> <<Instance(0, 90, 1..60)>>]]>>,
      <<[input  |-> [image_id |-> 2],
         output |-> [instances |-> <<Instance(0, 20, 1..60)>>]]>> }

\* faulty variant of the chaining: only the first gathered list is taken
chain_first(lists) == IF lists = <<>> THEN <<>> ELSE lists[1]

RECURSIVE chain_from(_, _)
chain_from(lists, k) ==
    IF k > Len(lists) THEN <<>> ELSE lists[k] \o chain_from(lists, k + 1)

\* list(itertools.chain(*predictions))
chain(lists) == chain_from(lists, 1)

InitDist ==
    /\ rank = [r \in Ranks |->
                 [pc |-> "new", predictions |-> <<>>, scores |-> <<>>,
                  ret |-> NoValue, gathered |-> <<>>]]
    /\ gather_buf = [r \in Ranks |-> NoValue]
    /\ EvalIdle
    /\ CodecIdle
    /\ ScoreIdle

\* evaluator.reset() on rank r, at the start of its run of the test loop
rank_reset(r) ==
    /\ rank[r].pc = "new"
    /\ rank' = [rank EXCEPT ![r].pc = "run",
                            ![r].predictions = <<>>,
                            ![r].scores = <<>>,
                            ![r].ret = ReturnedNone,
                            ![r].gathered = <<>>]
    /\ UNCHANGED gather_buf

\* evaluator.process(inputs, outputs) on rank r
rank_process(r, inputs, outs) ==
    LET res == process_loop(inputs, outs, 1, rank[r].predictions, TRUE, TOPK_TYPE)
    IN  /\ rank[r].pc = "run"
        /\ Len(rank[r].predictions) + Len(inputs) <= MaxRankImages
        /\ rank' = [rank EXCEPT ![r].predictions = res.predictions,
                                ![r].ret = res.ret]
        /\ UNCHANGED gather_buf

\* evaluator.evaluate() on rank r up to comm.synchronize(), where it waits
rank_synchronize(r) ==
    /\ rank[r].pc = "run"
    /\ rank' = [rank EXCEPT ![r].pc = "synchronize"]
    /\ UNCHANGED gather_buf

\* every rank has reached comm.synchronize(): the barrier lets all of them go
barrier ==
    /\ \A r \in Ranks : rank[r].pc = "synchronize"
    /\ rank' = [r \in Ranks |-> [rank[r] EXCEPT !.pc = "gather"]]
    /\ UNCHANGED gather_buf

\* the rest of evaluate on a rank that is not the main one: comm.gather
\* sends self._predictions to rank 0 and returns [], and evaluate returns {}
evaluate_other(r) ==
    /\ ~is_main_process(r)
    /\ rank[r].pc = "gather"
    /\ gather_buf[r] = NoValue
    /\ gather_buf' = [gather_buf EXCEPT ![r] = [kind |-> "list", items |-> rank[r].predictions]]
    /\ rank' = [rank EXCEPT ![r].pc = "done",
                            ![r].gathered = chain(<<>>),
                            ![r].ret = [kind |-> "ok", value |-> EmptyDict]]

\* the rest of evaluate on the main rank: comm.gather returns the lists of
\* all ranks in rank order, their chain is scored
evaluate_main(r) ==
    /\ is_main_process(r)
    /\ rank[r].pc = "gather"
    /\ \A o \in Ranks \ {r} : gather_buf[o] # NoValue
    /\ LET lists == [k \in 1..NumRanks |->
                        IF k - 1 = r THEN rank[r].predictions ELSE gather_buf[k - 1].items]
           preds == chain(lists)
           res   == IF Len(preds) = 0
                    THEN [scores |-> rank[r].scores, ret |-> ResultOfNoPredictions(rank[r].scores)]
                    ELSE evaluate_loop(preds, 1, rank[r].scores, annotations_cache, <<>>)
       IN  rank' = [rank EXCEPT ![r].pc = "done",
                               ![r].gathered = preds,
                               ![r].scores = res.scores,
                               ![r].ret = res.ret]
    /\ gather_buf' = [o \in Ranks |-> NoValue]

NextDist ==
    \/ \E r \in Ranks : rank_reset(r) /\ UNCHANGED <<codecVars, evalVars, scoreVars>>
    \/ \E r \in Ranks, batch \in RankBatches :
          rank_process(r, InputsOf(batch), OutputsOf(batch))
          /\ UNCHANGED <<codecVars, evalVars, scoreVars>>
    \/ \E r \in Ranks : rank_synchronize(r) /\ UNCHANGED <<codecVars, evalVars, scoreVars>>
    \/ barrier /\ UNCHANGED <<codecVars, evalVars, scoreVars>>
    \/ \E r \in Ranks : evaluate_other(r) /\ UNCHANGED <<codecVars, evalVars, scoreVars>>
    \/ \E r \in Ranks : evaluate_main(r) /\ UNCHANGED <<codecVars, evalVars, scoreVars>>

SpecDist == InitDist /\ [][NextDist]_vars

(***************************************************************************)
(* Claims about the codec                                                  *)
(***************************************************************************)
\* C1: round trip.  For every H x W bitmap of 0/1 cells (the all-zero and the
\* all-one bitmaps included), rle_decode(rle_encode(b), (H, W)) is b, cell for
\* cell.
C1_RoundTrip ==
    decoded # NoValue =>
        /\ decoded.kind = "ok"
        /\ ShapeOf(decoded.img) = ShapeOf(bitmap)
        /\ \A r \in 1..Len(bitmap) : \A c \in 1..Len(bitmap[1]) :
              decoded.img[r][c] = bitmap[r][c]

\* a bitmap of two rows with a run that crosses the row boundary and a run
\* ending at the last pixel has been encoded and decoded
C1_Witness ==
    /\ decoded # NoValue
    /\ bitmap = << <<0, 1, 1>>, <<1, 0, 1>> >>
    /\ mask_rle.chars = <<"2", " ", "3", " ", "6", " ", "1">>

NumTokens(chars) == Len(split(chars))

HasNonNumericToken(chars) ==
    \E i \in 1..NumTokens(chars) : ~IsIntLiteral(split(chars)[i])

\* C10: rle_decode fails with an error, and returns no bitmap, for every input
\* string that has an odd number of tokens or contains a non-numeric token.
C10_MalformedRaises ==
    (/\ decoded # NoValue
     /\ (NumTokens(mask_rle.chars) % 2 = 1 \/ HasNonNumericToken(mask_rle.chars)))
    => decoded.kind = "error"

\* the part of C10 the code does satisfy: a non-numeric token, or an odd
\* number of at least five numeric tokens
C10_Witness ==
    /\ decoded # NoValue
    /\ decoded.kind = "error"
    /\ NumTokens(mask_rle.chars) = 5
    /\ ~HasNonNumericToken(mask_rle.chars)

\* the (start, length) pairs of a string of an even number of integer tokens
PairsOf(chars) ==
    LET s == split(chars)
    IN  [k \in 1..(Len(s) \div 2) |->
            [start |-> int(s[2 * k - 1]), length |-> int(s[2 * k])]]

WellFormed(chars) ==
    NumTokens(chars) % 2 = 0 /\ ~HasNonNumericToken(chars)

\* the run starts before pixel 1 or ends past pixel H * W
OutsideShape(pair, shp) ==
    pair.start < 1 \/ pair.start + pair.length - 1 > shp[1] * shp[2]

\* C11: rle_decode raises an error whenever a (start, length) pair of the
\* input is inconsistent with the declared shape, i.e. the run starts before
\* pixel 1 or ends past pixel H * W; it never truncates or wraps such a run.
C11_OutsideShapeRaises ==
    (/\ decoded # NoValue
     /\ WellFormed(mask_rle.chars)
     /\ \E k \in 1..Len(PairsOf(mask_rle.chars)) :
           OutsideShape(PairsOf(mask_rle.chars)[k], shape))
    => decoded.kind = "error"

\* every token is a decimal number as str() writes it
CanonicalTokens(chars) ==
    \A i \in 1..NumTokens(chars) : str(int(split(chars)[i])) = split(chars)[i]

\* the pixels (1-indexed positions of the row-major flattening) of a run
PixelsOf(pair) == pair.start..(pair.start + pair.length - 1)

\* C17: for every 0/1 bitmap, rle_encode outputs an even number of integer
\* tokens forming (start, length) pairs in which every start is a 1-indexed
\* position of the row-major flattening, every length is >= 1, the starts are
\* strictly increasing and consecutive runs are separated by at least one
\* background pixel (the runs are the maximal runs of foreground pixels); the
\* all-zero bitmap encodes to the empty string.
C17_EncodedRuns ==
    (mask_rle # NoValue /\ bitmap # <<>>) =>
        LET chars == mask_rle.chars
            flat  == flatten(bitmap)
            pairs == PairsOf(chars)
        IN  /\ NumTokens(chars) % 2 = 0
            /\ ~HasNonNumericToken(chars)
            /\ CanonicalTokens(chars)
            /\ \A k \in 1..Len(pairs) :
                  /\ pairs[k].start \in 1..Len(flat)
                  /\ pairs[k].length >= 1
                  /\ pairs[k].start + pairs[k].length - 1 <= Len(flat)
            /\ \A k \in 1..(Len(pairs) - 1) :
                  /\ pairs[k].start < pairs[k + 1].start
                  /\ pairs[k].start + pairs[k].length < pairs[k + 1].start
            /\ \A i \in 1..Len(flat) :
                  flat[i] = 1 <=> \E k \in 1..Len(pairs) : i \in PixelsOf(pairs[k])
            /\ ((\A i \in 1..Len(flat) : flat[i] = 0) => chars = <<>>)

\* a bitmap with a run from the first pixel and a run across the row boundary
\* up to the last pixel has been encoded
C17_Witness ==
    /\ mask_rle # NoValue
    /\ bitmap = << <<1, 0, 1>>, <<1, 1, 1>> >>
    /\ mask_rle.chars = <<"1", " ", "1", " ", "3", " ", "4">>

\* the string is a list of (start, length) pairs of decimal numbers, each a
\* run of at least one pixel inside the H * W pixels of the shape
C18_IsRLE ==
    /\ WellFormed(mask_rle.chars)
    /\ CanonicalTokens(mask_rle.chars)
    /\ \A k \in 1..Len(PairsOf(mask_rle.chars)) :
          /\ PairsOf(mask_rle.chars)[k].length >= 1
          /\ ~OutsideShape(PairsOf(mask_rle.chars)[k], shape)

\* no two runs overlap or touch
C18_MaximalNonAdjacent ==
    LET pairs == PairsOf(mask_rle.chars)
    IN  \A j, k \in 1..Len(pairs) :
          j # k => \A p \in PixelsOf(pairs[j]) :
                      p \notin PixelsOf(pairs[k]) /\ p + 1 \notin PixelsOf(pairs[k])

C18_Ascending ==
    LET pairs == PairsOf(mask_rle.chars)
    IN  \A k \in 1..(Len(pairs) - 1) : pairs[k].start < pairs[k + 1].start

\* C18 as stated: for every RLE string s whose runs are maximal and
\* non-adjacent, rle_encode(rle_decode(s, (H, W))) yields the same token
\* sequence as s.
C18_RecodeSameTokens ==
    (reencoded # NoValue /\ C18_IsRLE /\ C18_MaximalNonAdjacent)
    => split(reencoded.chars) = split(mask_rle.chars)

\* C18 as amended: for every RLE string s whose runs are maximal and
\* non-adjacent and are listed in ascending order of their starts,
\* rle_encode(rle_decode(s, (H, W))) yields the same token sequence as s.
C18_RecodeSameTokensAscending ==
    (reencoded # NoValue /\ C18_IsRLE /\ C18_MaximalNonAdjacent /\ C18_Ascending)
    => split(reencoded.chars) = split(mask_rle.chars)

\* two runs of a 2 x 2 bitmap, the second across the row boundary, decoded
\* and encoded again
C18_Witness ==
    /\ reencoded # NoValue
    /\ shape = <<2, 2>>
    /\ mask_rle.chars = <<"1", " ", "1", " ", "3", " ", "2">>
    /\ reencoded.chars = mask_rle.chars

(***************************************************************************)
(* Claims about the prediction filter                                      *)
(***************************************************************************)
\* the instances C2 says are retained: those of the majority class whose
\* confidence and pixel count reach the thresholds of their own class
C2_Retained(instances, topk) ==
    LET classes == [k \in 1..Len(instances) |-> instances[k].pred_class]
        keep(inst) ==
            /\ inst.pred_class = majority(classes)
            /\ ~(inst.score < SCORE_THRESHOLD(topk)[inst.pred_class + 1])
            /\ ~(Cardinality(inst.pred_mask) < MIN_PIXELS[inst.pred_class + 1])
    IN  SelectSeq(instances, keep)

\* C2: for every non-empty list of instances of one image, the filter applied
\* in process retains exactly the instances with class = majority class,
\* confidence >= score_thresholds[class] and pixel count >=
\* min_pixel_thresholds[class] (both inclusive), in their original order.
C2_FilterRetains ==
    (/\ lastCall.op = "process"
     /\ lastCall.outputs[1].instances # <<>>)
    => LET given == lastCall.outputs[1].instances
           kept  == C2_Retained(given, TOPK_TYPE)
       IN  /\ ret = ReturnedNone
           /\ outputs[1].instances = kept
           /\ predictions[Len(predictions)].instances
                = instances_to_coco_json(kept, lastCall.inputs[1].image_id)

\* classes [0, 0, 1], the first instance exactly at the confidence threshold
\* and at the pixel threshold of its class: the two class-0 instances are kept
C2_Witness ==
    /\ lastCall.op = "process"
    /\ ret = ReturnedNone
    /\ TOPK_TYPE = "livecell"
    /\ lastCall.outputs[1].instances
         = <<Instance(0, 25, 1..60), Instance(0, 90, 1..61), Instance(1, 45, 1..140)>>
    /\ outputs[1].instances = <<Instance(0, 25, 1..60), Instance(0, 90, 1..61)>>

\* C14: the filter applied to an image with zero instances returns an empty
\* result without computing a majority class and without raising, so process
\* still records one (empty) prediction for that image.
C14_EmptyInstancesRecorded ==
    (/\ lastCall.op = "process"
     /\ hasAttrs
     /\ lastCall.outputs[1].instances = <<>>)
    => /\ ret = ReturnedNone
       /\ outputs[1].instances = <<>>
       /\ Len(predictions) = 1
       /\ predictions[1]
            = [image_id |-> lastCall.inputs[1].image_id, instances |-> <<>>]

\* the class of maximal frequency that comes first in the order of the
\* instances
C15_FirstEncountered(classes) ==
    LET best(k) == \A j \in 1..Len(classes) :
                      count(classes, classes[j]) <= count(classes, classes[k])
    IN  classes[CHOOSE k \in 1..Len(classes) :
                    best(k) /\ \A j \in 1..(k - 1) : ~best(j)]

C15_Retained(instances, topk) ==
    LET classes == [k \in 1..Len(instances) |-> instances[k].pred_class]
        cls     == C15_FirstEncountered(classes)
        keep(inst) ==
            /\ inst.pred_class = cls
            /\ inst.score >= SCORE_THRESHOLD(topk)[cls + 1]
            /\ Cardinality(inst.pred_mask) >= MIN_PIXELS[cls + 1]
    IN  SelectSeq(instances, keep)

\* C15: majority_class is a class of maximal frequency among the image's
\* predicted classes, and among tied classes the filter picks the one
\* encountered first in the order of the image's instances (classes [1, 0]
\* select class 1, classes [0, 1] select class 0).
C15_TieGoesToFirstEncountered ==
    (/\ lastCall.op = "process"
     /\ lastCall.outputs[1].instances # <<>>)
    => outputs[1].instances = C15_Retained(lastCall.outputs[1].instances, TOPK_TYPE)

\* classes [0, 1], both instances above the thresholds of their class: class
\* 0 is selected
C15_Witness ==
    /\ lastCall.op = "process"
    /\ lastCall.outputs[1].instances
         = <<Instance(0, 90, 1..61), Instance(1, 45, 1..140)>>
    /\ outputs[1].instances = <<Instance(0, 90, 1..61)>>

\* C16 as stated: after process returns, the "instances" entry of each output
\* the caller passed, and every instance's class, confidence and mask, are
\* the same as before the call.
C16_OutputsUnchanged ==
    lastCall.op = "process" => outputs = lastCall.outputs

\* kept is given with some elements left out: same instances, same order
C16_IsSubsequence(kept, given) ==
    \E f \in [1..Len(kept) -> 1..Len(given)] :
        /\ \A i, j \in 1..Len(kept) : i < j => f[i] < f[j]
        /\ \A i \in 1..Len(kept) : kept[i] = given[f[i]]

\* C16 as amended: process rebinds the "instances" entry of each output it
\* was passed to the filtered collection; that collection holds instances of
\* the passed one, in their order, each with the class, confidence and mask
\* it had.
C16_OutputsRebound ==
    (lastCall.op = "process" /\ ret = ReturnedNone) =>
        /\ Len(outputs) = Len(lastCall.outputs)
        /\ \A k \in 1..Len(outputs) :
              C16_IsSubsequence(outputs[k].instances, lastCall.outputs[k].instances)

\* three instances passed, one of another class and one too small: the
\* caller's entry now holds the remaining one, unchanged
C16_Witness ==
    /\ lastCall.op = "process"
    /\ ret = ReturnedNone
    /\ lastCall.outputs[1].instances
         = <<Instance(0, 90, 1..59), Instance(1, 45, 1..140), Instance(0, 90, 1..61)>>
    /\ outputs[1].instances = <<Instance(0, 90, 1..61)>>

(***************************************************************************)
(* Claims about evaluation runs                                            *)
(***************************************************************************)
\* the score evaluate gives the k-th image of self._predictions
ImageScoreOf(k) ==
    ScoreImage(Segmentations(predictions[k].instances),
               Segmentations(annotations_cache[predictions[k].image_id]))

\* C5: after any sequence of reset, process and evaluate calls, the value
\* evaluate returns under "MaP IoU" is the mean of the per-image scores of
\* exactly the images processed since the most recent reset, each counted once.
C5_MeanOfImagesSinceReset ==
    (/\ lastCall.op = "evaluate"
     /\ ret.kind = "ok"
     /\ "MaP IoU" \in ret.value.keys)
    => ret.value.MaP_IoU
         = mean([k \in 1..Len(predictions) |-> ImageScoreOf(k).value])

\* the first evaluate after a reset does return the mean over the images
\* processed since that reset
C5_Witness ==
    /\ lastCall.op = "evaluate"
    /\ ret.kind = "ok"
    /\ "MaP IoU" \in ret.value.keys
    /\ Len(predictions) = 2
    /\ Len(scores) = 2
    /\ ret.value.MaP_IoU = mean([k \in 1..Len(predictions) |-> ImageScoreOf(k).value])

\* C6: for every image whose prediction list is empty after filtering, the
\* score recorded by evaluate is exactly 0, whatever the ground truth of the
\* image (none at all included), and no IoU matrix is computed for it.
C6_NoPredictionsScoreZero ==
    lastCall.op = "evaluate" =>
        \A k \in 1..Len(iou_log) :
            predictions[k].instances = <<>> =>
                /\ scores[Len(scores) - Len(iou_log) + k] = Zero
                /\ iou_log[k] = NoValue

\* evaluate has scored an image without predictions and without ground truth
\* and one without predictions whose ground truth has two cells
C6_Witness ==
    /\ lastCall.op = "evaluate"
    /\ Len(iou_log) = 2
    /\ \A k \in 1..2 : predictions[k].instances = <<>>
    /\ annotations_cache[predictions[1].image_id] = <<>>
    /\ Len(annotations_cache[predictions[2].image_id]) = 2
    /\ scores = <<Zero, Zero>>

\* C7: for every image with at least one prediction after filtering and no
\* ground-truth mask, scoring is not an error: each of the ten thresholds
\* yields tp = 0, fn = 0, fp = number of predictions, and the image score is 0.
C7_NoGroundTruthScoresZero ==
    (/\ lastCall.op = "evaluate"
     /\ hasAttrs
     /\ \E k \in 1..Len(predictions) :
           /\ predictions[k].instances # <<>>
           /\ annotations_cache[predictions[k].image_id] = <<>>)
    => /\ ret.kind = "ok"
       /\ \A k \in 1..Len(predictions) :
            (/\ predictions[k].instances # <<>>
             /\ annotations_cache[predictions[k].image_id] = <<>>)
            => /\ scores[Len(scores) - Len(predictions) + k] = Zero
               /\ \A i \in 1..Len(Thresholds) :
                    precision_at(Thresholds[i], iou_log[k])
                      = [kind |-> "ok", tp |-> 0,
                         fp |-> Len(predictions[k].instances), fn |-> 0]

\* evaluate was the last call, after a reset, with no image processed since
C13_EmptyDataset ==
    /\ lastCall.op = "evaluate"
    /\ hasAttrs
    /\ predictions = <<>>

\* C13 as stated: when evaluate is called with no image scored since reset,
\* the dataset metric is reported as NaN.
C13_EmptyDatasetReportsNaN ==
    C13_EmptyDataset =>
        /\ ret.kind = "ok"
        /\ "MaP IoU" \in ret.value.keys
        /\ IsNaN(ret.value.MaP_IoU)

\* C13 as amended: when evaluate is called with no image processed since
\* reset, it returns the empty result {} (no "MaP IoU" entry) and scores
\* nothing: the call does not fail, and its result differs from a result
\* carrying the score 0.0.
C13_EmptyDatasetReturnsEmpty ==
    C13_EmptyDataset =>
        /\ ret.kind = "ok"
        /\ ret.value.keys = {}
        /\ ret.value # [keys |-> {"MaP IoU"}, MaP_IoU |-> Zero]
        /\ scores = <<>>
        /\ iou_log = <<>>

C13_Witness ==
    /\ C13_EmptyDataset
    /\ ret = [kind |-> "ok", value |-> EmptyDict]

\* c is a class of maximal frequency among the classes of the instances
C20_IsMajority(c, instances) ==
    LET classes == [j \in 1..Len(instances) |-> instances[j].pred_class]
    IN  /\ count(classes, c) >= 1
        /\ \A j \in 1..Len(classes) : count(classes, classes[j]) <= count(classes, c)

\* a step that is a process call, after reset, on a batch of k pairs with
\* non-empty instance lists
C20_ProcessStep ==
    /\ lastCall'.op = "process"
    /\ hasAttrs
    /\ \A i \in 1..Len(lastCall'.outputs) : lastCall'.outputs[i].instances # <<>>

C20_Appended ==
    LET k == Len(lastCall'.inputs)
        n == Len(predictions)
    IN  /\ ret' = ReturnedNone
        /\ Len(predictions') = n + k
        /\ SubSeq(predictions', 1, n) = predictions
        /\ \A i \in 1..k :
              LET rec == predictions'[n + i]
              IN  /\ rec.image_id = lastCall'.inputs[i].image_id
                  /\ \E c \in {0, 1, 2} :
                        /\ C20_IsMajority(c, lastCall'.outputs[i].instances)
                        /\ \A j \in 1..Len(rec.instances) :
                              /\ rec.instances[j].category_id = c
                              /\ rec.instances[j].image_id = rec.image_id
        /\ scores' = scores

\* C20: each process call on a batch of k (input, output) pairs with non-empty
\* instance lists appends exactly k records to the prediction list, in batch
\* order, the i-th carrying the i-th input's image_id and only instances of
\* that image's majority class; process never changes the score list and never
\* removes or reorders records appended by earlier process calls.
C20_ProcessAppendsBatch == [][C20_ProcessStep => C20_Appended]_vars

\* a batch of two images processed after an image that evaluate has scored
C20_Witness ==
    /\ lastCall.op = "process"
    /\ ret = ReturnedNone
    /\ Len(lastCall.inputs) = 2
    /\ Len(predictions) = 3
    /\ Len(scores) = 1
    /\ predictions[2].image_id = 1
    /\ Len(predictions[2].instances) = 2
    /\ predictions[3].image_id = 2
    /\ Len(predictions[3].instances) = 1

\* the prediction lists of the ranks r, r + 1, ..., one after the other
RECURSIVE C19_Concatenation(_)
C19_Concatenation(r) ==
    IF r \notin Ranks THEN <<>>
    ELSE rank[r].predictions \o C19_Concatenation(r + 1)

\* the score of one prediction record against the ground truth of its image
C19_ScoreOf(rec) ==
    ScoreImage(Segmentations(rec.instances),
               Segmentations(annotations_cache[rec.image_id])).value

\* every rank has returned from evaluate and has not started another run
C19_AllReturned == \A r \in Ranks : rank[r].pc = "done"

\* C19: with distributed = True, evaluate on the main rank scores the
\* concatenation of the prediction lists gathered from all ranks (every image
\* processed on any rank is scored, none dropped), and evaluate on every other
\* rank returns an empty result without scoring anything or appending to its
\* score list.
C19_MainScoresAllRanks ==
    /\ C19_AllReturned =>
          LET all == C19_Concatenation(0)
          IN  /\ rank[0].gathered = all
              /\ rank[0].scores = [k \in 1..Len(all) |-> C19_ScoreOf(all[k])]
              /\ rank[0].ret.kind = "ok"
              /\ IF all = <<>> THEN rank[0].ret.value.keys = {}
                 ELSE rank[0].ret.value
                        = [keys |-> {"MaP IoU"}, MaP_IoU |-> mean(rank[0].scores)]
    /\ \A r \in Ranks \ {0} :
          rank[r].pc = "done" =>
              /\ rank[r].ret = [kind |-> "ok", value |-> EmptyDict]
              /\ rank[r].scores = <<>>
              /\ rank[r].gathered = <<>>

\* rank 0 processed image 1 with one cell found, rank 1 image 1 with both
\* cells found: the main rank scored both, 1/2 and 1
C19_Witness ==
    /\ C19_AllReturned
    /\ Len(rank[0].predictions) = 1
    /\ Len(rank[1].predictions) = 1
    /\ rank[0].scores = <<Rat(1, 2), One>>
    /\ rank[0].ret.value.MaP_IoU = Rat(3, 4)
    /\ rank[1].ret = [kind |-> "ok", value |-> EmptyDict]

(***************************************************************************)
(* Claims about precision_at and iou_map                                   *)
(***************************************************************************)
\* the IoU of prediction d and ground truth g exceeds t hundredths
Exceeds(d, g, t) ==
    LET i == Cardinality(enc_preds[d] \cap enc_targs[g])
        u == Cardinality(enc_preds[d] \cup enc_targs[g])
    IN  i > 0 /\ 100 * i > t * u

PredIdx  == 1..Len(enc_preds)
TruthIdx == 1..Len(enc_targs)

\* C3: on the matrix the evaluator builds for an image, precision_at returns
\* tp = number of ground truths having at least one prediction with IoU >
\* threshold, fn = number of ground truths having none, fp = number of
\* predictions having no ground truth with IoU > threshold.
C3_CountsPerGroundTruth ==
    (pa # NoValue /\ pa.result.kind = "ok") =>
        LET t == pa.threshold
        IN  /\ pa.result.tp
                 = Cardinality({g \in TruthIdx : \E d \in PredIdx : Exceeds(d, g, t)})
            /\ pa.result.fn
                 = Cardinality({g \in TruthIdx : ~\E d \in PredIdx : Exceeds(d, g, t)})
            /\ pa.result.fp
                 = Cardinality({d \in PredIdx : ~\E g \in TruthIdx : Exceeds(d, g, t)})

\* what the code counts instead: the roles of predictions and ground truths
\* are exchanged
C3_Witness ==
    /\ pa # NoValue
    /\ pa.result.kind = "ok"
    /\ enc_preds = <<1..60, 1..60>>
    /\ enc_targs = <<1..60>>
    /\ pa.threshold = 50
    /\ pa.result = [kind |-> "ok", tp |-> 2, fp |-> 0, fn |-> 0]

\* the ten thresholds 0.50, 0.55, ..., 0.95
C4_Thresholds == <<50, 55, 60, 65, 70, 75, 80, 85, 90, 95>>

C4_PrecisionAlone(t) ==
    LET r == precision_at(t, ious)
    IN  Rat(r.tp, r.tp + r.fp + r.fn)

\* C4: for every IoU matrix with tp + fp + fn > 0 at each threshold, iou_map
\* returns the arithmetic mean of exactly ten values, one per threshold of
\* 0.50, 0.55, ..., 0.95, each being tp / (tp + fp + fn) as precision_at
\* gives it at that threshold alone.
C4_MeanOfTenPrecisions ==
    (/\ ap # NoValue
     /\ ap.kind = "ok"
     /\ \A i \in 1..10 : ~IsNaN(C4_PrecisionAlone(C4_Thresholds[i])))
    => ap.value
         = RatDivInt(RatSum([i \in 1..10 |-> C4_PrecisionAlone(C4_Thresholds[i])]), 10)

\* a prediction with IoU 3/4: precision 1 at the five thresholds below 0.75
\* and 0 from 0.75 on, mean 1/2
C4_Witness ==
    /\ ap # NoValue
    /\ ap.kind = "ok"
    /\ enc_preds = <<1..80>>
    /\ enc_targs = <<1..60>>
    /\ ap.value = Rat(1, 2)

\* cell (r, c) of the matrix is strictly greater than t hundredths
C8_Strictly(r, c, t) == ious.cell[r][c].n * 100 > t * ious.cell[r][c].d

\* C8: a cell counts as a match only when it is strictly greater than the
\* threshold; a row and a column whose only candidate cell equals the
\* threshold are counted as unmatched.
C8_StrictMatch ==
    (pa # NoValue /\ pa.result.kind = "ok") =>
        LET t == pa.threshold
            rows == 1..ious.rows
            cols == 1..ious.cols
        IN  /\ pa.result.tp
                 = Cardinality({r \in rows : \E c \in cols : C8_Strictly(r, c, t)})
            /\ pa.result.fn
                 = Cardinality({r \in rows : ~\E c \in cols : C8_Strictly(r, c, t)})
            /\ pa.result.fp
                 = Cardinality({c \in cols : ~\E r \in rows : C8_Strictly(r, c, t)})

\* IoU exactly 0.5 at threshold 0.50: the row and the column are unmatched
C8_Witness ==
    /\ pa # NoValue
    /\ enc_preds = <<1..60>>
    /\ enc_targs = <<1..120>>
    /\ ious.cell[1][1] = Rat(1, 2)
    /\ pa.threshold = 50
    /\ pa.result = [kind |-> "ok", tp |-> 0, fp |-> 1, fn |-> 1]

\* the predictions are the ground truths one-to-one: IoU 1 on the matched
\* pairs, IoU below 0.5 on every other pair
C9_PerfectOverlap ==
    /\ Len(enc_preds) >= 1
    /\ Len(enc_preds) = Len(enc_targs)
    /\ \E f \in [PredIdx -> TruthIdx] :
          /\ \A d1, d2 \in PredIdx : f[d1] = f[d2] => d1 = d2
          /\ \A d \in PredIdx : enc_preds[d] = enc_targs[f[d]] /\ enc_preds[d] # {}
          /\ \A d \in PredIdx, g \in TruthIdx :
                g # f[d] => 2 * Cardinality(enc_preds[d] \cap enc_targs[g])
                              < Cardinality(enc_preds[d] \cup enc_targs[g])

\* C9: under perfect overlap of n >= 1 masks every threshold gives tp = n,
\* fp = 0, fn = 0, and iou_map returns 1.0.
C9_PerfectOverlapScoresOne ==
    C9_PerfectOverlap =>
        /\ (pa # NoValue => pa.result = [kind |-> "ok", tp |-> Len(enc_preds),
                                         fp |-> 0, fn |-> 0])
        /\ (ap # NoValue => ap = [kind |-> "ok", value |-> One])

\* two cells predicted exactly, in the opposite order, scored by iou_map and
\* counted at threshold 0.95
C9_Witness ==
    /\ C9_PerfectOverlap
    /\ enc_preds = <<61..120, 1..60>>
    /\ enc_targs = <<1..60, 61..120>>
    /\ ap = [kind |-> "ok", value |-> One]
    /\ pa # NoValue
    /\ pa.threshold = 95

\* C12: the per-threshold precision tp / (tp + fp + fn) is defined for every
\* IoU matrix, the one with zero predictions and zero ground truths (where
\* tp + fp + fn = 0) included: there it is the constant 0, and the score of the
\* matrix is a number, never NaN and never an exception.
C12_PrecisionAlwaysDefined ==
    ap # NoValue =>
        /\ ap.kind = "ok"
        /\ ~IsNaN(ap.value)
        /\ \A i \in 1..Len(Thresholds) :
              LET r == precision_at(Thresholds[i], ious)
              IN  r.tp + r.fp + r.fn = 0 => ap.value = Zero

\* the precision tp / (tp + fp + fn) of matrix m at threshold t
C21_Precision(m, t) ==
    LET r == precision_at(t, m)
    IN  Rat(r.tp, r.tp + r.fp + r.fn)

\* x is a number in [0, 1]
C21_InUnit(x) == ~IsNaN(x) /\ 0 <= x.n /\ x.n <= x.d

\* x <= y, for numbers
C21_Leq(x, y) == x.n * y.d <= y.n * x.d

\* the matrix has at least one prediction and at least one ground truth
C21_Proper(m) == m.kind = "ndarray" /\ m.rows >= 1 /\ m.cols >= 1

\* C21: for every IoU matrix with at least one prediction and at least one
\* ground truth, the per-threshold precision is a value in [0, 1] that is
\* non-increasing as the threshold goes from 0.50 to 0.95, so every image
\* score, and the dataset metric returned by evaluate, lies in [0, 1].
C21_PrecisionInUnitNonIncreasing ==
    /\ \A k \in 1..Len(iou_log) :
          C21_Proper(iou_log[k]) =>
              /\ \A i \in 1..Len(Thresholds) :
                    C21_InUnit(C21_Precision(iou_log[k], Thresholds[i]))
              /\ \A i, j \in 1..Len(Thresholds) :
                    i < j => C21_Leq(C21_Precision(iou_log[k], Thresholds[j]),
                                     C21_Precision(iou_log[k], Thresholds[i]))
    /\ \A k \in 1..Len(scores) : C21_InUnit(scores[k])
    /\ (/\ lastCall.op = "evaluate"
        /\ ret.kind = "ok"
        /\ "MaP IoU" \in ret.value.keys)
       => C21_InUnit(ret.value.MaP_IoU)

\* evaluate has scored a cell found exactly next to a detection with IoU 3/4:
\* precision 2/3 below threshold 0.75 and 1/3 from there on, score 1/2
C21_Witness ==
    /\ lastCall.op = "evaluate"
    /\ ret.kind = "ok"
    /\ Len(iou_log) = 1
    /\ C21_Proper(iou_log[1])
    /\ C21_Precision(iou_log[1], 70) = Rat(2, 3)
    /\ C21_Precision(iou_log[1], 75) = Rat(1, 3)
    /\ scores = <<Rat(1, 2)>>
    /\ ret.value.MaP_IoU = Rat(1, 2)

====
